---------------------------- MODULE Spec2Model ----------------------------
(***************************************************************************)
(* hello_world.cpp: main() inserts "Hello, World!" and std::endl into      *)
(* std::cout inside a try block and returns 0; its handler for             *)
(* std::exception writes "An error occurred: <what>" to std::cerr and      *)
(* returns 1.                                                              *)
(*                                                                         *)
(* The model follows up to two executions of the program, one after the    *)
(* other (the runs of Runs), so that statements comparing executions can   *)
(* be stated.  Each run has its own standard streams, its own destination  *)
(* devices and its own process inputs (argv, environ), none of which       *)
(* main() reads.                                                           *)
(*                                                                         *)
(* The standard streams are modelled after the C++ library: an ostream is  *)
(* a record of its iostate bits, its exception mask, its unitbuf flag, the *)
(* characters still held by its stream buffer (buf), the characters that   *)
(* reached the destination (dev), and whether the destination accepts      *)
(* writes (ok).  Text is a sequence of one-character strings.              *)
(***************************************************************************)
EXTENDS Integers, Sequences, FiniteSets, TLC

\* ------------------------------------------------------------- bounds ----
\* Longest prefix a failing destination may still accept before it reports
\* the error (a short write).
MaxPartial == 1
\* Largest number of command-line arguments given to a run.
MaxArgs == 1

\* The executions that are compared: a first and a repeated invocation.
Runs == {1, 2}

\* ----------------------------------------------------------- literals ----
\* Mutant of Greeting: the literal without its comma.
GreetingNoComma == <<"H", "e", "l", "l", "o", " ", "W", "o", "r", "l", "d", "!">>

\* Line 13: the string literal.
Greeting == <<"H", "e", "l", "l", "o", ",", " ", "W", "o", "r", "l", "d", "!">>

\* std::endl inserts os.widen('\n').
Newline == "\n"

\* Line 17: the string literal.
ErrPrefix == <<"A", "n", " ", "e", "r", "r", "o", "r", " ", "o", "c", "c", "u", "r", "r", "e", "d", ":", " ">>

\* The C++ library implementations the program may be built against.
Impls == {"libstdc++", "libc++"}

\* e.what() of the std::ios_base::failure thrown by basic_ios::clear
\* (line 17 prints it); the text is the implementation's.
What(impl) ==
    IF impl = "libstdc++"
    THEN <<"b", "a", "s", "i", "c", "_", "i", "o", "s", ":", ":", "c", "l", "e", "a", "r", ":", " ", "i", "o", "s", "t", "r", "e", "a", "m", " ", "e", "r", "r", "o", "r">>
    ELSE <<"i", "o", "s", "_", "b", "a", "s", "e", ":", ":", "c", "l", "e", "a", "r", ":", " ", "u", "n", "s", "p", "e", "c", "i", "f", "i", "e", "d", " ", "i", "o", "s", "t", "r", "e", "a", "m", "_", "c", "a", "t", "e", "g", "o", "r", "y", " ", "e", "r", "r", "o", "r">>

\* What std::terminate's default handler reports on the standard error
\* descriptor when an exception leaves main().
TerminateMsg == <<"t", "e", "r", "m", "i", "n", "a", "t", "e", " ", "c", "a", "l", "l", "e", "d", "\n">>

\* Process inputs main() never looks at: `int main()` declares no
\* parameters and the body calls neither getenv nor anything else that
\* reads them.
ArgWords == {<<"-", "v">>}
ArgLists == UNION {[1..n -> ArgWords] : n \in 0..MaxArgs}
EnvVars == {"LANG=C"}

\* ------------------------------------------------------ library model ----
Min(a, b) == IF a <= b THEN a ELSE b

\* basic_ios::good(), basic_ios::bad()
Good(os) == os.state = {}
Bad(os) == "badbit" \in os.state

\* The choices the stream buffer and the destination make during one
\* library call: whether the stream buffer writes through to the destination
\* at once (unbuffered or line-buffered destination, full buffer) or keeps
\* the characters, how long a prefix a failing destination accepts, and
\* whether the stream buffer keeps what a failed write did not deliver.
IOChoices == [through : BOOLEAN, k : 0..MaxPartial, keep : BOOLEAN]

\* What a library call hands back: the stream after the call, and whether
\* the call ended by throwing std::ios_base::failure.
Ret(os, thrown) == [os |-> os, thrown |-> thrown]

\* basic_ios::setstate(bits) = clear(rdstate() | bits): sets the bits, then
\* throws ios_base::failure if (exceptions() & rdstate()) != 0.
Setstate(os, bits) ==
    LET s == [os EXCEPT !.state = @ \cup bits]
    IN  Ret(s, (s.exceptions \cap s.state) # {})

\* The stream buffer hands its characters to the destination (overflow,
\* sync).  A healthy destination takes them all.  A failing one takes a
\* proper prefix and reports the error.
WriteOut(os, io) ==
    IF os.buf = <<>>
    THEN [os |-> os, err |-> FALSE]
    ELSE IF os.ok
    THEN [os |-> [os EXCEPT !.dev = @ \o os.buf, !.buf = <<>>], err |-> FALSE]
    ELSE LET n == Min(io.k, Len(os.buf) - 1)
         IN  [os |-> [os EXCEPT !.dev = @ \o SubSeq(os.buf, 1, n),
                                !.buf = IF io.keep
                                        THEN SubSeq(os.buf, n + 1, Len(os.buf))
                                        ELSE <<>>],
              err |-> TRUE]

\* streambuf::sputn / sputc: the characters enter the buffer, and the
\* buffer may write through.
Sputn(os, text, io) ==
    LET b == [os EXCEPT !.buf = @ \o text]
    IN  IF io.through THEN WriteOut(b, io) ELSE [os |-> b, err |-> FALSE]

\* ostream::sentry's constructor (the flush of the tied stream is made by
\* the caller, see Tied): ok iff the stream is good.  libstdc++ calls
\* setstate(failbit) on a stream that is already bad.
Sentry(os, impl) ==
    IF Good(os)
    THEN [os |-> os, ok |-> TRUE, thrown |-> FALSE]
    ELSE IF Bad(os) /\ impl = "libstdc++"
    THEN LET s == Setstate(os, {"failbit"})
         IN  [os |-> s.os, ok |-> FALSE, thrown |-> s.thrown]
    ELSE [os |-> os, ok |-> FALSE, thrown |-> FALSE]

\* sentry's destructor: a unitbuf stream is synced after every output
\* function; a failed sync sets badbit.
SentryDone(os, io) ==
    IF os.unitbuf
    THEN LET w == WriteOut(os, io)
         IN  IF w.err THEN Setstate(w.os, {"badbit"}) ELSE Ret(w.os, FALSE)
    ELSE Ret(os, FALSE)

\* operator<<(ostream&, const char*) and ostream::put(char): sentry, then
\* sputn/sputc; a short write sets badbit.
Insert(os, text, impl, io) ==
    LET c == Sentry(os, impl)
    IN  IF c.thrown \/ ~c.ok
        THEN Ret(c.os, c.thrown)
        ELSE LET w == Sputn(c.os, text, io)
                 u == IF w.err THEN Setstate(w.os, {"badbit"}) ELSE Ret(w.os, FALSE)
             IN  IF u.thrown THEN u ELSE SentryDone(u.os, io)

\* ostream::flush(): sentry, then rdbuf()->pubsync(); -1 sets badbit.
Flush(os, impl, io) ==
    LET c == Sentry(os, impl)
    IN  IF c.thrown \/ ~c.ok
        THEN Ret(c.os, c.thrown)
        ELSE LET w == WriteOut(c.os, io)
             IN  IF w.err THEN Setstate(w.os, {"badbit"}) ELSE Ret(w.os, FALSE)

\* Mutant of Endl: '\n' is inserted and the stream is not flushed
\* (<< '\n' written for << std::endl).
EndlNoFlush(os, impl, io1, io2) == Insert(os, <<Newline>>, impl, io1)

\* std::endl(os): os.put(os.widen('\n')), then os.flush().
Endl(os, impl, io1, io2) ==
    LET p == Insert(os, <<Newline>>, impl, io1)
    IN  IF p.thrown THEN p ELSE Flush(p.os, impl, io2)

\* -------------------------------------------------------------- state ----
VARIABLES
    pc,         \* pc[r]: the statement of main() run r executes next
    cout,       \* cout[r]: std::cout of run r with its destination
    cerr,       \* cerr[r]: std::cerr of run r with its destination
    exc,        \* exc[r]: whether the handler of line 15 holds an exception
    exit_code,  \* exit_code[r]: what main() returned; -1 before it returns
    impl,       \* impl[r]: the library the run is built against
    argv,       \* argv[r]: the command line of run r
    environ,    \* environ[r]: the environment of run r
    attempts    \* attempts[r]: how often line 13 began writing the greeting

vars == <<pc, cout, cerr, exc, exit_code, impl, argv, environ, attempts>>

\* A standard stream as main() finds it.
Stream(mask, unitbuf, ok) ==
    [state |-> {}, exceptions |-> mask, unitbuf |-> unitbuf,
     buf |-> <<>>, dev |-> <<>>, ok |-> ok]

\* Where a run has ended: main() returned and the process exited, or
\* std::terminate aborted it.
Terminal == {"exited", "aborted"}

\* No process has been started.
Init ==
    /\ pc = [r \in Runs |-> "unstarted"]
    /\ cout = [r \in Runs |-> Stream({}, FALSE, TRUE)]
    /\ cerr = [r \in Runs |-> Stream({}, TRUE, TRUE)]
    /\ exc = [r \in Runs |-> FALSE]
    /\ exit_code = [r \in Runs |-> -1]
    /\ impl = [r \in Runs |-> "libstdc++"]
    /\ argv = [r \in Runs |-> <<>>]
    /\ environ = [r \in Runs |-> {}]
    /\ attempts = [r \in Runs |-> 0]

\* ------------------------------------------------------------ actions ----
\* The environment starts run r, once the earlier runs have ended: it
\* gives the process its command line, its environment and its standard
\* descriptors, each of which may or may not accept writes.  Control
\* reaches line 10 with std::cout's exception mask one of masks and
\* std::cerr unit-buffered.
ExecWith(r, masks) ==
    /\ pc[r] = "unstarted"
    /\ \A q \in Runs : q < r => pc[q] \in Terminal
    /\ \E m \in masks, ok \in BOOLEAN :
         cout' = [cout EXCEPT ![r] = Stream(m, FALSE, ok)]
    /\ \E ok \in BOOLEAN :
         cerr' = [cerr EXCEPT ![r] = Stream({}, TRUE, ok)]
    /\ \E i \in Impls : impl' = [impl EXCEPT ![r] = i]
    /\ \E a \in ArgLists : argv' = [argv EXCEPT ![r] = a]
    /\ \E e \in SUBSET EnvVars : environ' = [environ EXCEPT ![r] = e]
    /\ pc' = [pc EXCEPT ![r] = "insert"]
    /\ UNCHANGED <<exc, exit_code, attempts>>

\* The program as it is: nothing sets an exception mask before line 13, so
\* std::cout.exceptions() is goodbit at line 13.
Exec(r) == ExecWith(r, {{}})

\* Mutant of AfterCall: the output is tried again for as long as the stream
\* is bad (a retry loop around the write).
AfterCallRetry(res, next) ==
    IF res.thrown THEN "catch_prefix"
    ELSE IF Bad(res.os) THEN "endl" ELSE next

\* Mutant of AfterCall: the stream's state is inspected after the call and
\* a bad stream is treated like a thrown exception (if (!std::cout) ...).
AfterCallChecksState(res, next) ==
    IF res.thrown \/ Bad(res.os) THEN "catch_prefix" ELSE next

\* Where control goes after a call of the try block: to the handler of
\* line 15 if the call threw, to the next statement otherwise.
AfterCall(res, next) == IF res.thrown THEN "catch_prefix" ELSE next

\* Line 13, first call: std::cout << <text>.
InsertText(r, text) ==
    /\ pc[r] = "insert"
    /\ \E io \in IOChoices :
         LET res == Insert(cout[r], text, impl[r], io)
         IN  /\ cout' = [cout EXCEPT ![r] = res.os]
             /\ exc' = [exc EXCEPT ![r] = res.thrown]
             /\ pc' = [pc EXCEPT ![r] = AfterCall(res, "endl")]
    /\ attempts' = [attempts EXCEPT ![r] = @ + 1]
    /\ UNCHANGED <<cerr, exit_code, impl, argv, environ>>

\* Mutant of InsertGreeting: the greeting names the first command-line
\* argument when there is one.
InsertGreetingArgv(r) ==
    InsertText(r, IF argv[r] = <<>> THEN Greeting ELSE Greeting \o argv[r][1])

\* Line 13, first call: std::cout << "Hello, World!".
InsertGreeting(r) == InsertText(r, Greeting)

\* Line 13, second call: ... << std::endl.
EndlGreeting(r) ==
    /\ pc[r] = "endl"
    /\ \E io1 \in IOChoices, io2 \in IOChoices :
         LET res == Endl(cout[r], impl[r], io1, io2)
         IN  /\ cout' = [cout EXCEPT ![r] = res.os]
             /\ exc' = [exc EXCEPT ![r] = res.thrown]
             /\ pc' = [pc EXCEPT ![r] = AfterCall(res, "return0")]
    /\ UNCHANGED <<cerr, exit_code, impl, argv, environ, attempts>>

\* Mutant of Return0: the status is taken from the stream, with a code of
\* its own for a failed stream (return std::cout ? 0 : 2).
Return0FromStream(r) ==
    /\ pc[r] = "return0"
    /\ exit_code' = [exit_code EXCEPT ![r] = IF Bad(cout[r]) THEN 2 ELSE 0]
    /\ pc' = [pc EXCEPT ![r] = "returned"]
    /\ UNCHANGED <<cout, cerr, exc, impl, argv, environ, attempts>>

\* Line 14: return 0.
Return0(r) ==
    /\ pc[r] = "return0"
    /\ exit_code' = [exit_code EXCEPT ![r] = 0]
    /\ pc' = [pc EXCEPT ![r] = "returned"]
    /\ UNCHANGED <<cout, cerr, exc, impl, argv, environ, attempts>>

\* A library call on std::cerr inside the handler, c being what the call
\* itself does to std::cerr.  cerr.tie() is &cout: the sentry of a good
\* std::cerr first flushes std::cout.  An exception thrown here leaves
\* main(): std::terminate reports it on the standard error descriptor and
\* aborts the process, which then has no exit code.
Tied(r, c, next, io) ==
    LET t == IF Good(cerr[r]) THEN Flush(cout[r], impl[r], io)
                              ELSE Ret(cout[r], FALSE)
    IN  /\ cout' = [cout EXCEPT ![r] = t.os]
        /\ IF t.thrown \/ c.thrown
           THEN /\ pc' = [pc EXCEPT ![r] = "aborted"]
                /\ LET e == IF t.thrown THEN cerr[r] ELSE c.os
                   IN  cerr' = [cerr EXCEPT ![r] =
                           IF e.ok THEN [e EXCEPT !.dev = @ \o TerminateMsg] ELSE e]
           ELSE /\ pc' = [pc EXCEPT ![r] = next]
                /\ cerr' = [cerr EXCEPT ![r] = c.os]

\* Line 17, first call: std::cerr << "An error occurred: ".
HandlerPrefix(r) ==
    /\ pc[r] = "catch_prefix"
    /\ \E io \in IOChoices :
         Tied(r, Insert(cerr[r], ErrPrefix, impl[r], io), "catch_what", io)
    /\ UNCHANGED <<exc, exit_code, impl, argv, environ, attempts>>

\* Line 17, second call: ... << e.what().
HandlerWhat(r) ==
    /\ pc[r] = "catch_what"
    /\ \E io \in IOChoices :
         Tied(r, Insert(cerr[r], What(impl[r]), impl[r], io), "catch_endl", io)
    /\ UNCHANGED <<exc, exit_code, impl, argv, environ, attempts>>

\* Line 17, third call: ... << std::endl.
HandlerEndl(r) ==
    /\ pc[r] = "catch_endl"
    /\ \E io \in IOChoices :
         Tied(r, Endl(cerr[r], impl[r], io, io), "return1", io)
    /\ UNCHANGED <<exc, exit_code, impl, argv, environ, attempts>>

\* Line 18: return 1.
Return1(r) ==
    /\ pc[r] = "return1"
    /\ exit_code' = [exit_code EXCEPT ![r] = 1]
    /\ pc' = [pc EXCEPT ![r] = "returned"]
    /\ UNCHANGED <<cout, cerr, exc, impl, argv, environ, attempts>>

\* After main() returns: exit() runs ios_base::Init's destructor, which
\* flushes the standard streams and swallows what that throws.
ProcessExit(r) ==
    /\ pc[r] = "returned"
    /\ \E io \in IOChoices :
         /\ cout' = [cout EXCEPT ![r] = Flush(cout[r], impl[r], io).os]
         /\ cerr' = [cerr EXCEPT ![r] = Flush(cerr[r], impl[r], io).os]
    /\ pc' = [pc EXCEPT ![r] = "exited"]
    /\ UNCHANGED <<exc, exit_code, impl, argv, environ, attempts>>

\* The statements of the try block and the return to the environment.
Body(r) ==
    \/ InsertGreeting(r)
    \/ EndlGreeting(r)
    \/ Return0(r)
    \/ ProcessExit(r)

\* The statements of the handler of lines 15-19.
Handler(r) ==
    \/ HandlerPrefix(r)
    \/ HandlerWhat(r)
    \/ HandlerEndl(r)
    \/ Return1(r)

\* ----------------------------------------------------- specifications ----
\* One execution of the program.  The handler's statements are left out of
\* the next-state relation because no behaviour enables them: with the
\* exception mask goodbit no library call of line 13 throws
\* (HandlerUnreachable, checked under SpecWhole).
Next == Exec(1) \/ Body(1)

Spec == Init /\ [][Next]_vars

\* The same with the whole of main(), handler included.
NextWhole == Exec(1) \/ Body(1) \/ Handler(1)

SpecWhole == Init /\ [][NextWhole]_vars

HandlerUnreachable ==
    \A r \in Runs : pc[r] \notin {"catch_prefix", "catch_what", "catch_endl", "return1", "aborted"}

\* One execution that runs on: main() is straight-line code on one thread,
\* so each enabled statement is eventually executed.
FairSpec == Spec /\ WF_vars(Body(1))

\* Two executions, one after the other.
NextPair == \E r \in Runs : Exec(r) \/ Body(r)

SpecPair == Init /\ [][NextPair]_vars

\* One execution in an environment that reaches line 13 with any exception
\* mask on std::cout, as code running before main() could set it.  This
\* is the only setting in which the handler runs.
ExecMasked(r) == ExecWith(r, SUBSET {"badbit", "failbit"})

NextMasked == ExecMasked(1) \/ Body(1) \/ Handler(1)

SpecMasked == Init /\ [][NextMasked]_vars

\* ------------------------------------------------------------- claims ----
\* What the specification expects on standard output: the text
\* `Hello, World!` followed by one line terminator.
GreetingLine == <<"H", "e", "l", "l", "o", ",", " ", "W", "o", "r", "l", "d", "!", "\n">>

\* The number of line terminators in a text.
Lines(text) == Cardinality({i \in 1..Len(text) : text[i] = Newline})

\* Text begins with prefix.
BeginsWith(text, prefix) ==
    /\ Len(text) >= Len(prefix)
    /\ SubSeq(text, 1, Len(prefix)) = prefix

\* A write of run r to the standard output failed: the library recorded it
\* in std::cout's badbit.
WriteFailed(r) == Bad(cout[r])

\* main() of run r has returned.
Returned(r) == pc[r] \in {"returned", "exited"}

\* The statements of the handler.
HandlerPcs == {"catch_prefix", "catch_what", "catch_endl", "return1"}

\* C1: in every run whose write of the greeting failed, the standard error
\* begins with "An error occurred: " and the exit code is 1.  (Stated for
\* runs whose standard error accepts writes.)
C1_FailureReported ==
    \A r \in Runs :
        (pc[r] = "exited" /\ WriteFailed(r) /\ cerr[r].ok)
            => /\ BeginsWith(cerr[r].dev, ErrPrefix)
               /\ exit_code[r] = 1

\* C2: a run with a healthy standard output ends with exactly the greeting
\* line on standard output, nothing on standard error and exit code 0.
C2_SuccessPath ==
    \A r \in Runs :
        (pc[r] = "exited" /\ cout[r].ok)
            => /\ cout[r].dev = GreetingLine
               /\ cerr[r].dev = <<>>
               /\ exit_code[r] = 0

C2_Witness ==
    \E r \in Runs :
        /\ pc[r] = "exited"
        /\ cout[r].ok
        /\ cout[r].dev = GreetingLine
        /\ Lines(cout[r].dev) = 1

\* C3: an ended run delivered either the greeting line on standard output
\* or a one-line error message on standard error: not both, not neither.
\* (Stated for runs whose standard error accepts writes.)
C3_ExactlyOneOutput ==
    \A r \in Runs :
        (pc[r] = "exited" /\ cerr[r].ok)
            => LET greeted == cout[r].dev = GreetingLine
                   reported == BeginsWith(cerr[r].dev, ErrPrefix) /\ Lines(cerr[r].dev) = 1
               IN  greeted # reported

\* C4: the exit code is 0 exactly when the write of the greeting succeeded
\* and 1 exactly when it failed.
C4_ExitReflectsWrite ==
    \A r \in Runs :
        pc[r] = "exited"
            => /\ (exit_code[r] = 0) <=> ~WriteFailed(r)
               /\ (exit_code[r] = 1) <=> WriteFailed(r)

\* C5: a run that has left main() did so by returning 0 or 1: it has no
\* other exit code and was not aborted, also when a write failed.
C5_ExitCodeZeroOrOne ==
    \A r \in Runs :
        (Returned(r) \/ pc[r] \in Terminal) => exit_code[r] \in {0, 1}

C5_Witness ==
    \E r \in Runs :
        /\ pc[r] = "exited"
        /\ WriteFailed(r)
        /\ exit_code[r] \in {0, 1}

\* C6: every started run ends: it reaches the exit of the process with the
\* exit code of one of the two outcomes, whether or not the write failed.
C6_Terminates ==
    \A r \in Runs :
        (pc[r] # "unstarted") ~> (pc[r] = "exited" /\ exit_code[r] \in {0, 1})

C6_Witness ==
    \E r \in Runs :
        /\ pc[r] = "exited"
        /\ WriteFailed(r)
        /\ attempts[r] = 1

\* C7: the greeting is written at most once per run, and a run whose write
\* failed ends with exactly one diagnostic line on standard error.  (The
\* latter stated for runs whose standard error accepts writes.)
C7_NoRetryOneReport ==
    \A r \in Runs :
        /\ attempts[r] <= 1
        /\ (pc[r] = "exited" /\ WriteFailed(r) /\ cerr[r].ok)
               => Lines(cerr[r].dev) = 1

\* C8: two ended runs with healthy standard output and the same standard
\* error condition have the same standard output, the same standard error
\* and the same exit code, whatever their command lines and environments.
C8_Deterministic ==
    \A r, q \in Runs :
        (/\ pc[r] = "exited" /\ pc[q] = "exited"
         /\ cout[r].ok /\ cout[q].ok
         /\ cerr[r].ok = cerr[q].ok)
            => /\ cout[r].dev = cout[q].dev
               /\ cerr[r].dev = cerr[q].dev
               /\ exit_code[r] = exit_code[q]

C8_Witness ==
    /\ pc[1] = "exited" /\ pc[2] = "exited"
    /\ cout[1].ok /\ cout[2].ok
    /\ cerr[1].ok = cerr[2].ok
    /\ argv[1] # argv[2]
    /\ environ[1] # environ[2]
    /\ impl[1] # impl[2]
    /\ cout[1].dev = cout[2].dev

\* C9: when main() has returned 0 on a healthy standard output, the
\* greeting line has left the stream buffer and is at the destination;
\* nothing waits for the flush at process exit.
C9_FlushedBeforeReturn ==
    \A r \in Runs :
        (pc[r] = "returned" /\ exit_code[r] = 0 /\ cout[r].ok)
            => /\ cout[r].buf = <<>>
               /\ cout[r].dev = GreetingLine

C9_Witness ==
    \E r \in Runs :
        /\ pc[r] = "returned"
        /\ exit_code[r] = 0
        /\ cout[r].ok
        /\ cout[r].buf = <<>>
        /\ cout[r].dev = GreetingLine

\* C10: the handler runs only with an exception thrown by a call of line
\* 13, and a run whose calls of line 13 threw nothing, a failed write that
\* only set badbit included, returns 0 with nothing on standard error.
C10_HandlerOnlyOnThrow ==
    \A r \in Runs :
        /\ (pc[r] \in HandlerPcs \/ exit_code[r] = 1) => exc[r]
        /\ (Returned(r) /\ ~exc[r])
               => /\ cerr[r].dev = <<>>
                  /\ exit_code[r] = 0

C10_Witness ==
    \E r \in Runs :
        /\ pc[r] = "exited"
        /\ ~exc[r]
        /\ WriteFailed(r)
        /\ ~cout[r].ok
        /\ cout[r].exceptions = {}
        /\ exit_code[r] = 0
        /\ cerr[r].dev = <<>>

=============================================================================
